---- MODULE Spec2Model ----
(***************************************************************************)
(* pg-mcp: a read-only PostgreSQL MCP server.  The model covers the query  *)
(* safety gate (isSafeQuery), the three tool handlers (ExecuteQuery,       *)
(* ListTables, DescribeTable) and the schema fallback (getSchemaInfo).     *)
(* Go strings are sequences of one-character strings, so that ToLower,     *)
(* TrimSpace, HasPrefix, Contains and the regular expressions work on      *)
(* characters as they do in the program.                                   *)
(***************************************************************************)
EXTENDS Integers, Sequences, FiniteSets, TLC

VARIABLES
  input,     \* policy harness: the query string handed to isSafeQuery
  verdict,   \* policy harness: the error isSafeQuery returned for input
  phase,     \* server: "idle" (waiting for a call) or "done" (handler returned)
  req,       \* server: the tool call being handled
  db,        \* server: what the database does for the calls of this request
  calls,     \* server: the database calls the handler issued, in order
  opened,    \* server: row cursors opened by the handler
  closed,    \* server: row cursors closed by the handler
  resp,      \* server: what the handler returned
  ignored    \* server: the errors that occurred and the handler did not look at

vars == <<input, verdict, phase, req, db, calls, opened, closed, resp, ignored>>
policyVars == <<input, verdict>>
serverVars == <<phase, req, db, calls, opened, closed, resp, ignored>>

----------------------------------------------------------------------------
(* bounds of the model *)

MaxGlue == 2      \* pieces of text put around a seed query
MaxRows == 2      \* rows a result cursor holds
MaxCols == 2      \* columns of a user query's result

----------------------------------------------------------------------------
(* characters *)

LowerLetters ==
  <<"a","b","c","d","e","f","g","h","i","j","k","l","m",
    "n","o","p","q","r","s","t","u","v","w","x","y","z">>
UpperLetters ==
  <<"A","B","C","D","E","F","G","H","I","J","K","L","M",
    "N","O","P","Q","R","S","T","U","V","W","X","Y","Z">>
Digits == <<"0","1","2","3","4","5","6","7","8","9">>

Range(f) == {f[i] : i \in DOMAIN f}

\* unicode.IsSpace, on the characters the model's strings use
UnicodeSpace == {" ", "\t", "\n", "\r", "\f"}
\* the regexp class \s: [\t\n\f\r ]
PerlSpace == {" ", "\t", "\n", "\f", "\r"}
\* the regexp class \w: [0-9A-Za-z_]
WordChars == Range(LowerLetters) \cup Range(UpperLetters) \cup Range(Digits) \cup {"_"}

ToLowerChar(c) ==
  IF \E i \in DOMAIN UpperLetters : UpperLetters[i] = c
  THEN LowerLetters[CHOOSE i \in DOMAIN UpperLetters : UpperLetters[i] = c]
  ELSE c

\* strings.ToLower
ToLower(s) == [i \in 1..Len(s) |-> ToLowerChar(s[i])]

RECURSIVE TrimLeft(_)
TrimLeft(s) ==
  IF s # <<>> /\ Head(s) \in UnicodeSpace THEN TrimLeft(Tail(s)) ELSE s

RECURSIVE TrimRight(_)
TrimRight(s) ==
  IF s # <<>> /\ s[Len(s)] \in UnicodeSpace
  THEN TrimRight(SubSeq(s, 1, Len(s) - 1)) ELSE s

\* strings.TrimSpace
TrimSpace(s) == TrimRight(TrimLeft(s))

\* strings.HasPrefix
HasPrefix(s, prefix) ==
  Len(s) >= Len(prefix) /\ SubSeq(s, 1, Len(prefix)) = prefix

\* strings.Contains
Contains(s, substr) ==
  \E i \in 1..(Len(s) - Len(substr) + 1) : SubSeq(s, i, i + Len(substr) - 1) = substr

----------------------------------------------------------------------------
(* keywords *)

KwSelect ==
  <<"s","e","l","e","c","t">>
KwWith ==
  <<"w","i","t","h">>
KwDrop ==
  <<"d","r","o","p">>
KwTable ==
  <<"t","a","b","l","e">>
KwDatabase ==
  <<"d","a","t","a","b","a","s","e">>
KwSchema ==
  <<"s","c","h","e","m","a">>
KwTruncate ==
  <<"t","r","u","n","c","a","t","e">>
KwDelete ==
  <<"d","e","l","e","t","e">>
KwFrom ==
  <<"f","r","o","m">>
KwUpdate ==
  <<"u","p","d","a","t","e">>
KwSet ==
  <<"s","e","t">>
KwInsert ==
  <<"i","n","s","e","r","t">>
KwInto ==
  <<"i","n","t","o">>
KwAlter ==
  <<"a","l","t","e","r">>
KwCreate ==
  <<"c","r","e","a","t","e">>
KwGrant ==
  <<"g","r","a","n","t">>
KwRevoke ==
  <<"r","e","v","o","k","e">>
KwColumn ==
  <<"c","o","l","u","m","n">>

----------------------------------------------------------------------------
(* regular expressions (Go regexp, RE2 syntax) as sequences of atoms *)

WordBoundary == [k |-> "\\b"]           \* \b   ASCII word boundary
SpacePlus    == [k |-> "\\s+"]          \* \s+  one or more of [\t\n\f\r ]
AnyStar      == [k |-> ".*"]            \* .*   any characters but "\n"
Lit(w)       == [i \in 1..Len(w) |-> [k |-> "char", c |-> w[i]]]

IsWordAt(s, i) == i >= 1 /\ i <= Len(s) /\ s[i] \in WordChars

\* \b holds between position i-1 and i when exactly one side is a word character
AtWordBoundary(s, i) == IsWordAt(s, i - 1) # IsWordAt(s, i)

\* does re[pi..] match s from position si on (the end is not anchored)
RECURSIVE MatchAt(_, _, _, _)
MatchAt(re, pi, s, si) ==
  IF pi > Len(re) THEN TRUE
  ELSE LET a == re[pi] IN
    CASE a.k = "char" ->
           si <= Len(s) /\ s[si] = a.c /\ MatchAt(re, pi + 1, s, si + 1)
      [] a.k = "\\b" ->
           AtWordBoundary(s, si) /\ MatchAt(re, pi + 1, s, si)
      [] a.k = "\\s+" ->
           /\ si <= Len(s)
           /\ s[si] \in PerlSpace
           /\ (MatchAt(re, pi, s, si + 1) \/ MatchAt(re, pi + 1, s, si + 1))
      [] a.k = ".*" ->
           \/ (si <= Len(s) /\ s[si] # "\n" /\ MatchAt(re, pi, s, si + 1))
           \/ MatchAt(re, pi + 1, s, si)

\* regexp.MatchString: the pattern matches somewhere in s
MatchString(re, s) == \E start \in 1..(Len(s) + 1) : MatchAt(re, 1, s, start)

Words2(w1, w2) == <<WordBoundary>> \o Lit(w1) \o <<SpacePlus>> \o Lit(w2) \o <<WordBoundary>>
Word1(w)       == <<WordBoundary>> \o Lit(w) \o <<WordBoundary>>

dangerousPatterns == <<
  [src |-> "\\bdrop\\s+table\\b",      re |-> Words2(KwDrop, KwTable)],
  [src |-> "\\bdrop\\s+database\\b",   re |-> Words2(KwDrop, KwDatabase)],
  [src |-> "\\bdrop\\s+schema\\b",     re |-> Words2(KwDrop, KwSchema)],
  [src |-> "\\btruncate\\b",           re |-> Word1(KwTruncate)],
  [src |-> "\\bdelete\\s+from\\b",     re |-> Words2(KwDelete, KwFrom)],
  [src |-> "\\bupdate\\s+.*\\s+set\\b",
   re  |-> <<WordBoundary>> \o Lit(KwUpdate) \o <<SpacePlus, AnyStar, SpacePlus>>
           \o Lit(KwSet) \o <<WordBoundary>>],
  [src |-> "\\binsert\\s+into\\b",     re |-> Words2(KwInsert, KwInto)],
  [src |-> "\\balter\\s+table\\b",     re |-> Words2(KwAlter, KwTable)],
  [src |-> "\\bcreate\\s+table\\b",    re |-> Words2(KwCreate, KwTable)],
  [src |-> "\\bgrant\\b",              re |-> Word1(KwGrant)],
  [src |-> "\\brevoke\\b",             re |-> Word1(KwRevoke)] >>

----------------------------------------------------------------------------
(* isSafeQuery *)

NoError == [nil |-> TRUE, msg |-> "", arg |-> ""]
Errorf(msg, arg) == [nil |-> FALSE, msg |-> msg, arg |-> arg]

DangerousMsg == "query contains potentially dangerous operation: %s"
OnlySelectMsg == "only SELECT and CTE (WITH) queries are allowed"

\* a plausible slip: the WITH alternative is forgotten
PrefixCheckSelectOnly(query) ==
  IF ~HasPrefix(query, KwSelect) THEN Errorf(OnlySelectMsg, "") ELSE NoError

\* the prefix test that follows the loop
PrefixCheck(query) ==
  IF ~HasPrefix(query, KwSelect) /\ ~HasPrefix(query, KwWith)
  THEN Errorf(OnlySelectMsg, "")
  ELSE NoError

\* the loop over dangerousPatterns from index i on, then the prefix test
RECURSIVE ScanFrom(_, _)
ScanFrom(query, i) ==
  IF i > Len(dangerousPatterns) THEN PrefixCheck(query)
  ELSE IF MatchString(dangerousPatterns[i].re, query)
       THEN Errorf(DangerousMsg, dangerousPatterns[i].src)
       ELSE ScanFrom(query, i + 1)

\* a plausible slip: the prefix test runs first and lets select/with through
isSafeQueryPrefixFirst(query) ==
  LET q == TrimSpace(ToLower(query))
  IN  IF PrefixCheck(q).nil THEN NoError ELSE ScanFrom(q, 1)

isSafeQuery(query) == ScanFrom(TrimSpace(ToLower(query)), 1)

----------------------------------------------------------------------------
(* query strings *)

SelectStar ==
  <<"S","E","L","E","C","T"," ","*"," ","F","R","O","M"," ","t">>
WithCte ==
  <<"w","i","t","h"," ","c"," ","a","s"," ","(","s","e","l","e","c","t"," ","1",")"," ","s","e","l","e","c","t"," ","*"," ","f","r","o","m"," ","c">>
DeleteFrom ==
  <<"D","E","L","E","T","E"," ","F","R","O","M"," ","t">>
DropTable ==
  <<"D","R","O","P"," ","T","A","B","L","E"," ","t">>
DropDatabase ==
  <<"d","r","o","p","\n"," ","d","a","t","a","b","a","s","e"," ","d">>
DropSchema ==
  <<"D","r","o","p"," ","S","c","h","e","m","a"," ","s">>
TruncateT ==
  <<"T","r","u","n","c","a","t","e"," ","t">>
UpdateSet ==
  <<"u","p","d","a","t","e"," ","t"," ","s","e","t"," ","a"," ","="," ","1">>
InsertInto ==
  <<"I","N","S","E","R","T"," ","I","N","T","O"," ","t">>
AlterTable ==
  <<"a","l","t","e","r","\t","t","a","b","l","e"," ","t">>
CreateTable ==
  <<"c","r","e","a","t","e"," ","t","a","b","l","e"," ","t">>
GrantAll ==
  <<"g","r","a","n","t"," ","a","l","l">>
RevokeAll ==
  <<"R","E","V","O","K","E"," ","a","l","l">>
DropView ==
  <<"d","r","o","p"," ","v","i","e","w"," ","v">>
ShowTables ==
  <<"s","h","o","w"," ","t","a","b","l","e","s">>
SqlComment ==
  <<"-","-"," ","c">>
Granted ==
  <<"g","r","a","n","t","e","d">>

SelectThenDropView ==
  <<"s","e","l","e","c","t"," ","1",";"," ","d","r","o","p"," ","v","i","e","w"," ","v">>
SelectThenDropTable ==
  <<"s","e","l","e","c","t"," ","1",";"," ","D","R","O","P"," ","T","A","B","L","E"," ","t">>
CteUpdateLines ==
  <<"W","I","T","H"," ","u"," ","A","S"," ","(","U","P","D","A","T","E"," ","O","N","L","Y","\n","t","\n","S","E","T"," ","a"," ","="," ","1"," ","R","E","T","U","R","N","I","N","G"," ","a",")"," ","S","E","L","E","C","T"," ","a"," ","F","R","O","M"," ","u">>
CommentSelect ==
  <<"-","-"," ","c","\n","s","e","l","e","c","t"," ","1">>
SelectDupCols ==
  <<"S","E","L","E","C","T"," ","1"," ","A","S"," ","a",","," ","2"," ","A","S"," ","a">>
EmptyQuery == <<>>
TruncateThenDrop == TruncateT \o <<";", " ">> \o DropTable

Seeds ==
  { SelectStar, WithCte, DeleteFrom, DropTable, DropDatabase, DropSchema, TruncateT,
    UpdateSet, InsertInto, AlterTable, CreateTable, GrantAll,
    RevokeAll, DropView, ShowTables, SqlComment, Granted, EmptyQuery,
    TruncateThenDrop, CteUpdateLines, SelectThenDropView }

Glue == { KwSelect \o <<" ">>, <<" ">>, <<"\n">>, <<";">>, <<"x">> }

RECURSIVE Wrapped(_, _)
Wrapped(S, n) ==
  IF n = 0 THEN S
  ELSE Wrapped(S \cup {g \o s : g \in Glue, s \in S} \cup {s \o g : g \in Glue, s \in S},
               n - 1)

PolicyInputs == Wrapped(Seeds, MaxGlue)

Pending == [nil |-> FALSE, msg |-> "pending", arg |-> ""]

Queries ==
  { SelectStar, <<" ", " ">> \o WithCte, DeleteFrom, EmptyQuery, CommentSelect,
    SelectThenDropView, SelectThenDropTable, CteUpdateLines, ShowTables,
    SelectDupCols }

\* isSafeQuery on the queries the server model is called with, worked out once
SafetyOf == [q \in Queries |-> isSafeQuery(q)]

----------------------------------------------------------------------------
(* Go values and encoding/json *)

\* a slice declared with var is nil until something is appended to it
NilSlice == [isNil |-> TRUE, elems |-> <<>>]
AppendTo(sl, x) == [isNil |-> FALSE, elems |-> Append(sl.elems, x)]

\* m[k] = v on a Go map held as a function from its keys
Put(m, k, v) == [x \in (DOMAIN m) \cup {k} |-> IF x = k THEN v ELSE m[x]]
EmptyMap == [x \in {} |-> 0]

JNull == [j |-> "null"]
JText(s) == [j |-> "string", v |-> s]
JNumber(n) == [j |-> "number", v |-> n]
JArray(items) == [j |-> "array", items |-> items]
JObject(members) == [j |-> "object", members |-> members]
\* json.Marshal failed: the byte slice is nil and string(nil) is ""
NoBytes == [j |-> "none"]

Marshalled(json) == [err |-> FALSE, json |-> json]
MarshalFailed == [err |-> TRUE, json |-> NoBytes]

\* json.Marshal of a []string
MarshalStrings(sl) ==
  IF sl.isNil THEN Marshalled(JNull)
  ELSE Marshalled(JArray([i \in 1..Len(sl.elems) |-> JText(sl.elems[i])]))

\* the encoding of a []map[string]string; a nil slice encodes as null
ColumnsJSON(sl) ==
  IF sl.isNil THEN JNull
  ELSE JArray([i \in 1..Len(sl.elems) |->
                 JObject([k \in DOMAIN sl.elems[i] |-> JText(sl.elems[i][k])])])

\* json.Marshal of a []map[string]string
MarshalColumns(sl) == Marshalled(ColumnsJSON(sl))

\* json.Marshal of a map[string][]map[string]string
MarshalSchema(info) ==
  Marshalled(JObject([tbl \in DOMAIN info |-> ColumnsJSON(info[tbl])]))

\* values the driver puts into an interface{}
Int64Kind == "int64"
BytesKind == "[]byte"
NaNKind   == "float64 NaN"
StringKind == "string"
ValueKinds == {Int64Kind, BytesKind, NaNKind}

\* float64 NaN has no JSON encoding: json.UnsupportedValueError
Unsupported(val) == val.t = NaNKind

ValueJSON(val) ==
  CASE val.t = Int64Kind -> JNumber(val.v)
    [] val.t = StringKind -> JText(val.v)
    [] val.t = BytesKind -> JText(val.v)     \* base64 text of the bytes
    [] OTHER -> NoBytes

\* json.Marshal of a QueryResult
MarshalQueryResult(r) ==
  IF \E i \in DOMAIN r.Rows : \E k \in DOMAIN r.Rows[i] : Unsupported(r.Rows[i][k])
  THEN MarshalFailed
  ELSE Marshalled(JObject(
         [columns |-> JArray([i \in 1..Len(r.Columns) |-> JText(r.Columns[i])]),
          rows    |-> JArray([i \in 1..Len(r.Rows) |->
                         JObject([k \in DOMAIN r.Rows[i] |-> ValueJSON(r.Rows[i][k])])]),
          count   |-> JNumber(r.Count)]))

----------------------------------------------------------------------------
(* errors and tool results *)

ErrNoTable ==
  <<"p","q",":"," ","n","o"," ","s","u","c","h"," ","t","a","b","l","e">>
ErrNoColumn ==
  <<"p","q",":"," ","c","o","l","u","m","n"," ","c"," ","d","o","e","s"," ","n","o","t"," ","e","x","i","s","t">>
ErrDivZero ==
  <<"p","q",":"," ","d","i","v","i","s","i","o","n"," ","b","y"," ","z","e","r","o">>
ErrCanceled ==
  <<"c","o","n","t","e","x","t"," ","c","a","n","c","e","l","e","d">>

DriverError(text) == [nil |-> FALSE, msg |-> "driver", arg |-> text]

\* mcp.NewToolResultText
NewToolResultText(text) == [kind |-> "result", isError |-> FALSE, text |-> text]
\* mcp.NewToolResultError, the message held as its format and operands
NewToolResultError(fmt, err, more) ==
  [kind |-> "result", isError |-> TRUE, fmt |-> fmt, err |-> err, more |-> more]
\* return nil, err
ReturnError(err) == [kind |-> "error", err |-> err]

MissingQueryMsg == "Missing required parameter 'query'"
MissingTableMsg == "Missing required parameter 'table'"
RequireStringMsg == "required argument not found"
QueryFailedMsg == "Query failed: %v"
QueryFailedSchemaMsg == "Query failed: %v\n\nHere is the schema:\n%s"
QueryFailedNoSchemaMsg == "Query failed: %v. Also failed to fetch schema: %v"

----------------------------------------------------------------------------
(* the database: catalog, results, and where a call or a cursor fails *)

UsersTable ==
  [name |-> "users",
   cols |-> << [column |-> "id", type |-> "integer"],
               [column |-> "name", type |-> "text"] >>]
OrdersTable ==
  [name |-> "orders", cols |-> << [column |-> "id", type |-> "integer"] >>]

FullCatalog == <<UsersTable, OrdersTable>>
\* the public tables, in the order the catalog query returns them
Catalogs == { <<>>, <<UsersTable>>, FullCatalog }
TableNames == {"users", "orders", "nosuch"}

NoFault == [kind |-> "none", at |-> 0]
QueryFault == [kind |-> "query", at |-> 0]       \* QueryContext returns an error
ColumnsFault == [kind |-> "columns", at |-> 0]   \* rows.Columns returns an error
\* "iter": rows.Next returns false after `at` rows with rows.Err() set (a driver
\* error or the context cancelled); "scan": rows.Scan fails on row at+1
RowFaults == {[kind |-> k, at |-> n] : k \in {"iter", "scan"}, n \in 0..(MaxRows - 1)}
CursorFaults == {NoFault, QueryFault} \cup RowFaults

\* the for rows.Next() loop over a cursor holding rows, under a fault
Iterate(rows, fault) ==
  LET hit == fault.kind \in {"iter", "scan"} /\ fault.at < Len(rows)
  IN  [read    |-> IF hit THEN SubSeq(rows, 1, fault.at) ELSE rows,
       scanErr |-> hit /\ fault.kind = "scan",
       rowsErr |-> hit /\ fault.kind = "iter"]

\* the calls the handlers issue
CallerCall(query) == [src |-> "caller", text |-> query, args |-> <<>>]
TablesCall == [src |-> "tablesSQL", text |-> <<>>, args |-> <<>>]
ColumnsCall(table) == [src |-> "columnsSQL", text |-> <<>>, args |-> <<table>>]

\* information_schema.tables WHERE table_schema = 'public'
TablesRows(catalog) == [i \in 1..Len(catalog) |-> catalog[i].name]

\* information_schema.columns WHERE ... table_name = $1 ORDER BY ordinal_position
ColumnsRows(catalog, table) ==
  IF \E i \in 1..Len(catalog) : catalog[i].name = table
  THEN catalog[CHOOSE i \in 1..Len(catalog) : catalog[i].name = table].cols
  ELSE <<>>

\* the value of result row r, column c
Cell(kind, r, c) == [t |-> kind, v |-> 10 * r + c]
ResultRows(out) ==
  [r \in 1..out.nrows |-> [c \in 1..Len(out.columns) |-> Cell(out.kinds[c], r, c)]]

RECURSIVE SeqsUpTo(_, _)
SeqsUpTo(S, n) ==
  IF n = 0 THEN {<<>>}
  ELSE LET shorter == SeqsUpTo(S, n - 1)
       IN  shorter \cup {Append(s, x) : s \in shorter, x \in S}

ColumnNames == {"a", "b"}
ColumnLists == SeqsUpTo(ColumnNames, MaxCols)

\* the faults a cursor of n rows can meet
FaultsWithin(n) == {NoFault, ColumnsFault} \cup {f \in RowFaults : f.at < n}

RowsOutcomesFor(cols, n) ==
  { [kind |-> "rows", errText |-> <<>>, columns |-> cols, kinds |-> ks,
     nrows |-> n, fault |-> f] :
    ks \in {k \in SeqsUpTo(ValueKinds, MaxCols) : Len(k) = Len(cols)},
    f \in FaultsWithin(n) }

RowsOutcomes == UNION {RowsOutcomesFor(cols, n) : cols \in ColumnLists, n \in 0..MaxRows}

ErrTexts == {ErrNoTable, ErrNoColumn, ErrDivZero, ErrCanceled}
ErrorOutcome(text) ==
  [kind |-> "error", errText |-> text, columns |-> <<>>, kinds |-> <<>>,
   nrows |-> 0, fault |-> NoFault]
NoOutcome ==
  [kind |-> "none", errText |-> <<>>, columns |-> <<>>, kinds |-> <<>>,
   nrows |-> 0, fault |-> NoFault]

CatalogCalls == 1..(1 + Len(FullCatalog))
NoFaults == [i \in CatalogCalls |-> NoFault]
FaultPlans == [CatalogCalls -> CursorFaults]

NoDb == [query |-> NoOutcome, catalog |-> <<>>, faults |-> NoFaults]

----------------------------------------------------------------------------
(* getSchemaInfo *)

ColumnPair(row) == [column |-> row.column, type |-> row.type]

RECURSIVE AppendAll(_, _, _)
AppendAll(sl, rows, i) ==
  IF i > Len(rows) THEN sl ELSE AppendAll(AppendTo(sl, rows[i]), rows, i + 1)

\* var s []T, then append for each row read
SliceOf(rows) == AppendAll(NilSlice, rows, 1)

IgnoredRowsErr(it) == IF it.rowsErr THEN {"rows.Err"} ELSE {}

\* the loop over tables from index t on; acc holds what the earlier turns built.
\* A failed colRows.Scan returns without colRows.Close().
RECURSIVE ColumnsLoop(_, _, _, _)
ColumnsLoop(tables, t, d, acc) ==
  IF t > Len(tables) THEN acc
  ELSE
    LET f    == d.faults[1 + t]
        sent == [acc EXCEPT !.calls = Append(@, ColumnsCall(tables[t]))]
        it   == Iterate(ColumnsRows(d.catalog, tables[t]), f)
        cols == SliceOf([i \in 1..Len(it.read) |-> ColumnPair(it.read[i])])
    IN  IF f.kind = "query"
        THEN [sent EXCEPT !.err = Errorf("failed to describe table %s: %w",
                                         DriverError(ErrCanceled))]
        ELSE IF it.scanErr
        THEN [sent EXCEPT !.err = DriverError(ErrCanceled), !.opened = @ + 1]
        ELSE ColumnsLoop(tables, t + 1, d,
               [sent EXCEPT !.info = Put(@, tables[t], cols),
                            !.opened = @ + 1,
                            !.closed = @ + 1,
                            !.ignored = @ \cup IgnoredRowsErr(it)])

getSchemaInfo(d) ==
  LET f  == d.faults[1]
      it == Iterate(TablesRows(d.catalog), f)
      start == [err |-> NoError, info |-> EmptyMap, calls |-> <<TablesCall>>,
                opened |-> 1, closed |-> 0, ignored |-> IgnoredRowsErr(it)]
      \* defer tableRows.Close()
      Deferred(r) == [r EXCEPT !.closed = @ + 1]
  IN  IF f.kind = "query"
      THEN [start EXCEPT !.err = Errorf("failed to list tables: %w",
                                        DriverError(ErrCanceled)),
                         !.opened = 0, !.ignored = {}]
      ELSE IF it.scanErr
      THEN Deferred([start EXCEPT !.err = DriverError(ErrCanceled)])
      ELSE Deferred(ColumnsLoop(it.read, 1, d, start))

----------------------------------------------------------------------------
(* the tool handlers *)

Returned(resp_, calls_, opened_, closed_, ignored_) ==
  [resp |-> resp_, calls |-> calls_, opened |-> opened_, closed |-> closed_,
   ignored |-> ignored_]

\* strings.Contains(err.Error(), "column") || strings.Contains(err.Error(), "table")
MentionsSchemaTableOnly(text) == Contains(text, KwTable)
MentionsSchema(text) == Contains(text, KwColumn) \/ Contains(text, KwTable)

\* if b, ok := val.([]byte); ok { string(b) } else { val }
Normalize(val) == IF val.t = BytesKind THEN [t |-> StringKind, v |-> val.v] ELSE val

\* for i, colName := range columns { rowMap[colName] = ... }
RECURSIVE RowMapFrom(_, _, _, _)
RowMapFrom(columns, values, i, rowMap) ==
  IF i > Len(columns) THEN rowMap
  ELSE RowMapFrom(columns, values, i + 1, Put(rowMap, columns[i], Normalize(values[i])))

RowMap(columns, values) == RowMapFrom(columns, values, 1, EmptyMap)

\* the rows loop and the QueryResult built from what it read
BuildResult(columns, read) ==
  [Columns |-> columns,
   Rows    |-> [i \in 1..Len(read) |-> RowMap(columns, read[i])],
   Count   |-> Len(read)]

\* ExecuteQuery of part_000 from its call of QueryContext on
RunQuery(query, d) ==
  LET out  == d.query
      call == <<CallerCall(query)>>
      it   == Iterate(ResultRows(out), out.fault)
      enc  == MarshalQueryResult(BuildResult(out.columns, it.read))
  IN  IF out.kind = "error"
      THEN IF MentionsSchema(out.errText)
           THEN LET s == getSchemaInfo(d)
                IN  IF ~s.err.nil
                    THEN Returned(NewToolResultError(QueryFailedNoSchemaMsg,
                                                     DriverError(out.errText), s.err),
                                  call \o s.calls, s.opened, s.closed, s.ignored)
                    ELSE Returned(NewToolResultError(QueryFailedSchemaMsg,
                                                     DriverError(out.errText),
                                                     MarshalSchema(s.info).json),
                                  call \o s.calls, s.opened, s.closed, s.ignored)
           ELSE Returned(NewToolResultError(QueryFailedMsg, DriverError(out.errText),
                                            NoBytes),
                         call, 0, 0, {})
      ELSE IF out.fault.kind = "columns"
      THEN Returned(ReturnError(Errorf("failed to get columns: %w",
                                       DriverError(ErrCanceled))),
                    call, 1, 1, {})
      ELSE IF it.scanErr
      THEN Returned(ReturnError(Errorf("failed to scan row: %w",
                                       DriverError(ErrCanceled))),
                    call, 1, 1, {})
      ELSE \* responseJSON, _ := json.Marshal(response)
           Returned(NewToolResultText(enc.json), call, 1, 1,
                    IgnoredRowsErr(it) \cup (IF enc.err THEN {"json.Marshal"} ELSE {}))

\* ExecuteQuery of main.go from its call of QueryContext on
RunQueryMain(query, d) ==
  LET out  == d.query
      call == <<CallerCall(query)>>
      it   == Iterate(ResultRows(out), out.fault)
      enc  == MarshalQueryResult(BuildResult(out.columns, it.read))
  IN  IF out.kind = "error"
      THEN Returned(ReturnError(Errorf("failed to execute query: %w",
                                       DriverError(out.errText))),
                    call, 0, 0, {})
      ELSE IF out.fault.kind = "columns"
      THEN Returned(ReturnError(Errorf("failed to get columns: %w",
                                       DriverError(ErrCanceled))),
                    call, 1, 1, {})
      ELSE IF it.scanErr
      THEN Returned(ReturnError(Errorf("failed to scan row: %w",
                                       DriverError(ErrCanceled))),
                    call, 1, 1, {})
      ELSE IF enc.err
      THEN Returned(ReturnError(Errorf("failed to marshal response: %w",
                                       [nil |-> FALSE, msg |-> "json: unsupported value",
                                        arg |-> ""])),
                    call, 1, 1, IgnoredRowsErr(it))
      ELSE Returned(NewToolResultText(enc.json), call, 1, 1, IgnoredRowsErr(it))

\* a plausible slip: the query is run without asking isSafeQuery
ExecuteQueryUnchecked(arg, d) ==
  IF ~arg.present
  THEN Returned(NewToolResultError(MissingQueryMsg, NoError, NoBytes), <<>>, 0, 0, {})
  ELSE RunQuery(arg.val, d)

\* ExecuteQuery of part_000
ExecuteQueryResult(arg, d) ==
  IF ~arg.present
  THEN Returned(NewToolResultError(MissingQueryMsg, NoError, NoBytes), <<>>, 0, 0, {})
  ELSE IF ~SafetyOf[arg.val].nil
  THEN Returned(ReturnError(Errorf("unsafe query: %w", SafetyOf[arg.val])),
                <<>>, 0, 0, {})
  ELSE RunQuery(arg.val, d)

\* ExecuteQuery of main.go
ExecuteQueryMainResult(arg, d) ==
  IF ~arg.present
  THEN Returned(NewToolResultError(RequireStringMsg, NoError, NoBytes), <<>>, 0, 0, {})
  ELSE IF ~SafetyOf[arg.val].nil
  THEN Returned(ReturnError(Errorf("unsafe query: %w", SafetyOf[arg.val])),
                <<>>, 0, 0, {})
  ELSE RunQueryMain(arg.val, d)

ListTablesResult(d) ==
  LET f  == d.faults[1]
      it == Iterate(TablesRows(d.catalog), f)
  IN  IF f.kind = "query"
      THEN Returned(ReturnError(Errorf("failed to list tables: %w",
                                       DriverError(ErrCanceled))),
                    <<TablesCall>>, 0, 0, {})
      ELSE IF it.scanErr
      THEN Returned(ReturnError(DriverError(ErrCanceled)), <<TablesCall>>, 1, 1, {})
      ELSE \* response, _ := json.Marshal(tables)
           Returned(NewToolResultText(MarshalStrings(SliceOf(it.read)).json),
                    <<TablesCall>>, 1, 1, IgnoredRowsErr(it))

DescribeTableResult(arg, d) ==
  LET f  == d.faults[1]
      it == Iterate(ColumnsRows(d.catalog, arg.val), f)
      columns == SliceOf([i \in 1..Len(it.read) |-> ColumnPair(it.read[i])])
  IN  IF ~arg.present
      THEN Returned(NewToolResultError(MissingTableMsg, NoError, NoBytes), <<>>, 0, 0, {})
      ELSE IF f.kind = "query"
      THEN Returned(ReturnError(Errorf("failed to describe table: %w",
                                       DriverError(ErrCanceled))),
                    <<ColumnsCall(arg.val)>>, 0, 0, {})
      ELSE IF it.scanErr
      THEN Returned(ReturnError(DriverError(ErrCanceled)),
                    <<ColumnsCall(arg.val)>>, 1, 1, {})
      ELSE \* response, _ := json.Marshal(columns)
           Returned(NewToolResultText(MarshalColumns(columns).json),
                    <<ColumnsCall(arg.val)>>, 1, 1, IgnoredRowsErr(it))

----------------------------------------------------------------------------
(* requests, and what the database does for each *)

Given(val) == [present |-> TRUE, val |-> val]
QueryMissing == [present |-> FALSE, val |-> <<>>]
TableMissing == [present |-> FALSE, val |-> ""]

QueryArgs == {Given(q) : q \in Queries} \cup {QueryMissing}
TableArgs == {Given(n) : n \in TableNames} \cup {TableMissing}

\* what the database may do for a caller's query that reaches it
DbForRunQuery ==
  {[query |-> out, catalog |-> <<>>, faults |-> NoFaults] : out \in RowsOutcomes}
  \cup {[query |-> ErrorOutcome(e), catalog |-> <<>>, faults |-> NoFaults] :
          e \in {e \in ErrTexts : ~MentionsSchema(e)}}
  \cup {[query |-> ErrorOutcome(e), catalog |-> c, faults |-> fp] :
          e \in {e \in ErrTexts : MentionsSchema(e)}, c \in Catalogs, fp \in FaultPlans}

DbForRunQueryMain ==
  {[query |-> out, catalog |-> <<>>, faults |-> NoFaults] : out \in RowsOutcomes}
  \cup {[query |-> ErrorOutcome(e), catalog |-> <<>>, faults |-> NoFaults] : e \in ErrTexts}

DbForQuery(arg, reached) ==
  IF arg.present /\ SafetyOf[arg.val].nil THEN reached ELSE {NoDb}

\* one catalog call: only the first entry of the fault plan is consulted
DbForCatalogCall ==
  {[query |-> NoOutcome, catalog |-> c, faults |-> [NoFaults EXCEPT ![1] = f]] :
     c \in Catalogs, f \in CursorFaults}

----------------------------------------------------------------------------
(* specification of the server *)

Handled(r, d, request) ==
  /\ phase' = "done"
  /\ req' = request
  /\ db' = d
  /\ calls' = r.calls
  /\ opened' = r.opened
  /\ closed' = r.closed
  /\ resp' = r.resp
  /\ ignored' = r.ignored
  /\ UNCHANGED policyVars

\* the postgres_query tool of part_000
ExecuteQuery ==
  /\ phase = "idle"
  /\ \E arg \in QueryArgs :
       \E d \in DbForQuery(arg, DbForRunQuery) :
         Handled(ExecuteQueryResult(arg, d), d,
                 [tool |-> "postgres_query", file |-> "part_000", arg |-> arg])

\* the postgres_query tool of main.go
ExecuteQueryMain ==
  /\ phase = "idle"
  /\ \E arg \in QueryArgs :
       \E d \in DbForQuery(arg, DbForRunQueryMain) :
         Handled(ExecuteQueryMainResult(arg, d), d,
                 [tool |-> "postgres_query", file |-> "main.go", arg |-> arg])

ListTables ==
  /\ phase = "idle"
  /\ \E d \in DbForCatalogCall :
       Handled(ListTablesResult(d), d,
               [tool |-> "list_tables", file |-> "part_000", arg |-> TableMissing])

DescribeTable ==
  /\ phase = "idle"
  /\ \E arg \in TableArgs :
       \E d \in (IF arg.present THEN DbForCatalogCall ELSE {NoDb}) :
         Handled(DescribeTableResult(arg, d), d,
                 [tool |-> "describe_table", file |-> "part_000", arg |-> arg])

\* the result goes out to the caller; nothing of the call is kept
Respond ==
  /\ phase = "done"
  /\ phase' = "idle"
  /\ req' = [tool |-> "none"]
  /\ db' = [kind |-> "none"]
  /\ calls' = <<>>
  /\ opened' = 0
  /\ closed' = 0
  /\ resp' = [kind |-> "none"]
  /\ ignored' = {}
  /\ UNCHANGED policyVars

ServerIdle ==
  /\ phase = "idle"
  /\ req = [tool |-> "none"]
  /\ db = [kind |-> "none"]
  /\ calls = <<>>
  /\ opened = 0
  /\ closed = 0
  /\ resp = [kind |-> "none"]
  /\ ignored = {}

Init ==
  /\ input = <<>>
  /\ verdict = Pending
  /\ ServerIdle

Next == ExecuteQuery \/ ExecuteQueryMain \/ ListTables \/ DescribeTable \/ Respond

Spec == Init /\ [][Next]_vars

----------------------------------------------------------------------------
(* specification of the policy harness *)

PolicyInit ==
  /\ input \in PolicyInputs
  /\ verdict = Pending
  /\ ServerIdle

Validate ==
  /\ verdict = Pending
  /\ verdict' = isSafeQuery(input)
  /\ UNCHANGED <<input, serverVars>>

PolicyNext == Validate

PolicySpec == PolicyInit /\ [][PolicyNext]_vars

----------------------------------------------------------------------------
(* what it means for a text to contain a denylist rule, stated on the text *)
(* itself and not through the regexp matcher                               *)

WordAt(s, w, i) ==
  i >= 1 /\ i + Len(w) - 1 <= Len(s) /\ SubSeq(s, i, i + Len(w) - 1) = w

\* w stands at i as a whole word
WholeWordAt(s, w, i) ==
  WordAt(s, w, i) /\ ~IsWordAt(s, i - 1) /\ ~IsWordAt(s, i + Len(w))

AllIn(s, a, b, S) == \A k \in a..b : s[k] \in S

ContainsWord(s, w) == \E i \in 1..Len(s) : WholeWordAt(s, w, i)

\* w1, then one or more white-space characters, then w2
ContainsPhrase(s, w1, w2) ==
  \E i \in 1..Len(s) :
    /\ WordAt(s, w1, i) /\ ~IsWordAt(s, i - 1)
    /\ \E j \in (i + Len(w1) + 1)..Len(s) :
         /\ WordAt(s, w2, j) /\ ~IsWordAt(s, j + Len(w2))
         /\ AllIn(s, i + Len(w1), j - 1, PerlSpace)

\* update, white space, characters of one line, white space, set
ContainsUpdateSetOneLine(s) ==
  \E i \in 1..Len(s) :
    /\ WordAt(s, KwUpdate, i) /\ ~IsWordAt(s, i - 1)
    /\ \E j \in (i + Len(KwUpdate) + 2)..Len(s) :
         /\ WordAt(s, KwSet, j) /\ ~IsWordAt(s, j + Len(KwSet))
         /\ \E a \in (i + Len(KwUpdate) + 1)..(j - 1) :
              /\ AllIn(s, i + Len(KwUpdate), a - 1, PerlSpace)
              /\ \E b \in a..(j - 1) :
                   /\ AllIn(s, a, b - 1, Range(s) \ {"\n"})
                   /\ AllIn(s, b, j - 1, PerlSpace)

\* the word update, then any characters at all, then the word set
ContainsUpdateAnySet(s) ==
  \E i \in 1..Len(s) :
    /\ WholeWordAt(s, KwUpdate, i)
    /\ \E j \in (i + Len(KwUpdate))..Len(s) : WholeWordAt(s, KwSet, j)

UpdateRule == 6

\* rule r of the list, in the order of dangerousPatterns
ContainsRule(s, r) ==
  CASE r = 1  -> ContainsPhrase(s, KwDrop, KwTable)
    [] r = 2  -> ContainsPhrase(s, KwDrop, KwDatabase)
    [] r = 3  -> ContainsPhrase(s, KwDrop, KwSchema)
    [] r = 4  -> ContainsWord(s, KwTruncate)
    [] r = 5  -> ContainsPhrase(s, KwDelete, KwFrom)
    [] r = 6  -> ContainsUpdateSetOneLine(s)
    [] r = 7  -> ContainsPhrase(s, KwInsert, KwInto)
    [] r = 8  -> ContainsPhrase(s, KwAlter, KwTable)
    [] r = 9  -> ContainsPhrase(s, KwCreate, KwTable)
    [] r = 10 -> ContainsWord(s, KwGrant)
    [] r = 11 -> ContainsWord(s, KwRevoke)

Rules == 1..Len(dangerousPatterns)

Normalized == TrimSpace(ToLower(input))

RejectedBy(r) == Errorf(DangerousMsg, dangerousPatterns[r].src)

----------------------------------------------------------------------------
(* properties of isSafeQuery *)

\* C3: a query whose trimmed, lower-cased text contains a denylist rule is
\* rejected whatever its letter case and even when it starts with select or
\* with, and the reason names the first rule, in the listed order, it contains.
C3_DenylistFirstHit ==
  verdict # Pending =>
    \A r \in Rules :
      (ContainsRule(Normalized, r) /\ \A e \in 1..(r - 1) : ~ContainsRule(Normalized, e))
        => verdict = RejectedBy(r)

\* a query that starts with select, holds two rules in upper case, and is
\* rejected for the one listed first although it comes second in the text
C3_Witness ==
  /\ input = KwSelect \o <<" ">> \o TruncateThenDrop
  /\ verdict = RejectedBy(1)

\* C4: a query whose normalized text holds the word update, then any
\* characters (line breaks too), then set, gets the denylist rejection, for the
\* update rule unless a rule listed before it is contained as well.
C4_UpdateAnyCharsSet ==
  (verdict # Pending /\ ContainsUpdateAnySet(Normalized)) =>
    /\ ~verdict.nil
    /\ verdict.msg = DangerousMsg
    /\ (\A e \in 1..(UpdateRule - 1) : ~ContainsRule(Normalized, e))
         => verdict = RejectedBy(UpdateRule)

\* C5: a query that contains no denylist rule is allowed when its trimmed,
\* lower-cased text begins with select or with, and is otherwise rejected with
\* the "only SELECT and CTE (WITH)" reason, which is no denylist reason.
C5_PrefixDecides ==
  (verdict # Pending /\ \A r \in Rules : ~ContainsRule(Normalized, r)) =>
    /\ (WordAt(Normalized, KwSelect, 1) \/ WordAt(Normalized, KwWith, 1))
         => verdict = NoError
    /\ ~(WordAt(Normalized, KwSelect, 1) \/ WordAt(Normalized, KwWith, 1))
         => /\ verdict = Errorf(OnlySelectMsg, "")
            /\ \A r \in Rules : verdict # RejectedBy(r)
            /\ verdict.msg # DangerousMsg

\* a query that opens with a SQL comment before select is rejected by the
\* prefix test
C5_Witness ==
  /\ input = SqlComment \o <<"\n">> \o KwSelect \o <<" ">>
  /\ verdict = Errorf(OnlySelectMsg, "")

----------------------------------------------------------------------------
(* properties of the handlers *)

\* the policy stated on the text itself, for the queries the server is called with
PolicyRejects ==
  [q \in Queries |->
     LET n == TrimSpace(ToLower(q))
     IN  \/ \E r \in Rules : ContainsRule(n, r)
         \/ ~(WordAt(n, KwSelect, 1) \/ WordAt(n, KwWith, 1))]

QueryDone(file) ==
  /\ phase = "done"
  /\ req.tool = "postgres_query"
  /\ req.file = file
  /\ req.arg.present

IsSuccess == resp.kind = "result" /\ ~resp.isError
IsFailure == resp.kind = "error" \/ (resp.kind = "result" /\ resp.isError)

CallerCalls == {i \in DOMAIN calls : calls[i].src = "caller"}
CatalogCallsMade == {i \in DOMAIN calls : calls[i].src # "caller"}

\* C1: a postgres_query request whose query the policy rejects ends with the
\* "unsafe query" error and no database call, and the database receives a
\* caller's query only if it is the request's query and the policy allows it.
C1_RejectedNeverReachesDb ==
  \A file \in {"part_000", "main.go"} :
    QueryDone(file) =>
      /\ PolicyRejects[req.arg.val] =>
           /\ calls = <<>>
           /\ resp.kind = "error"
           /\ resp.err.msg = "unsafe query: %w"
           /\ ~resp.err.arg.nil
      /\ \A i \in CallerCalls :
           calls[i].text = req.arg.val /\ ~PolicyRejects[req.arg.val]

\* a select followed by DROP TABLE was rejected by part_000 without any call
C1_Witness ==
  /\ QueryDone("part_000")
  /\ req.arg.val = SelectThenDropTable
  /\ calls = <<>>
  /\ resp.kind = "error"

WriteKeywords == {KwInsert, KwUpdate, KwDelete, KwDrop, KwTruncate, KwAlter}

\* position i opens a statement: only white space lies between it and the
\* start of the text or the nearest ";" before it
OpensStatement(s, i) ==
  \E k \in 0..(i - 1) : (k = 0 \/ s[k] = ";") /\ AllIn(s, k + 1, i - 1, PerlSpace)

HasWriteStatement ==
  [q \in Queries |->
     LET n == ToLower(q)
     IN  \E i \in 1..Len(n) :
           OpensStatement(n, i) /\ \E w \in WriteKeywords : WholeWordAt(n, w, i)]

\* C2: no query holding an INSERT, UPDATE, DELETE, DROP, TRUNCATE or ALTER
\* statement is ever sent to the database.
C2_WritesNeverExecuted ==
  phase = "done" => \A i \in CallerCalls : ~HasWriteStatement[calls[i].text]

TextHas(s, w) == \E i \in 1..Len(s) : WordAt(s, w, i)
ErrorNamesSchema == TextHas(db.query.errText, KwTable) \/ TextHas(db.query.errText, KwColumn)

PairsJSON(cols) ==
  JArray([i \in 1..Len(cols) |->
            JObject([column |-> JText(cols[i].column), type |-> JText(cols[i].type)])])

\* the snapshot of a whole catalog: every table, its columns in ordinal order
SnapshotJSON(catalog) ==
  JObject([n \in {catalog[i].name : i \in 1..Len(catalog)} |->
             PairsJSON(catalog[CHOOSE i \in 1..Len(catalog) : catalog[i].name = n].cols)])

PlainFailure == NewToolResultError(QueryFailedMsg, DriverError(db.query.errText), NoBytes)

\* C6 as stated: an error naming "table" or "column" always brings a non-empty
\* snapshot; any other error brings the raw message and no catalog query; a
\* query that succeeds issues no catalog query.
C6_SchemaOnTableOrColumnError ==
  (QueryDone("part_000") /\ db.query.kind # "none") =>
    /\ (db.query.kind = "error" /\ ErrorNamesSchema) =>
         /\ resp.kind = "result" /\ resp.isError
         /\ resp.fmt = QueryFailedSchemaMsg
         /\ resp.more.j = "object"
         /\ DOMAIN resp.more.members # {}
         /\ CatalogCallsMade # {}
    /\ (db.query.kind = "error" /\ ~ErrorNamesSchema) =>
         resp = PlainFailure /\ CatalogCallsMade = {}
    /\ db.query.kind = "rows" => CatalogCallsMade = {}

\* C6 amended: an error naming "table" or "column" makes ExecuteQuery of
\* part_000 query the catalog in that request; the error response carries the
\* database message and either the snapshot read (one entry per public table
\* when no catalog call fails, so empty when there is no table) or, when a
\* catalog query or scan fails, the schema-fetch error and no snapshot.  Any
\* other error brings the raw message only and no catalog query, and a query
\* that succeeds issues no catalog query.
C6_SchemaBestEffort ==
  (QueryDone("part_000") /\ db.query.kind # "none") =>
    /\ (db.query.kind = "error" /\ ErrorNamesSchema) =>
         /\ resp.kind = "result" /\ resp.isError
         /\ resp.err = DriverError(db.query.errText)
         /\ Len(calls) >= 2 /\ calls[2] = TablesCall
         /\ \/ /\ resp.fmt = QueryFailedSchemaMsg
               /\ resp.more.j = "object"
               /\ DOMAIN resp.more.members \subseteq
                    {db.catalog[i].name : i \in 1..Len(db.catalog)}
            \/ /\ resp.fmt = QueryFailedNoSchemaMsg
               /\ ~resp.more.nil
               /\ \E i \in CatalogCalls : db.faults[i].kind \in {"query", "scan"}
         /\ (\A i \in CatalogCalls : db.faults[i].kind \notin {"query", "scan"})
              => resp.fmt = QueryFailedSchemaMsg
         /\ db.faults = NoFaults => resp.more = SnapshotJSON(db.catalog)
    /\ (db.query.kind = "error" /\ ~ErrorNamesSchema) =>
         resp = PlainFailure /\ CatalogCallsMade = {}
    /\ db.query.kind = "rows" => CatalogCallsMade = {}

\* a "column" error answered with the snapshot of both public tables
C6_Witness ==
  /\ QueryDone("part_000")
  /\ db.query.errText = ErrNoColumn
  /\ db.catalog = FullCatalog
  /\ db.faults = NoFaults
  /\ resp.fmt = QueryFailedSchemaMsg
  /\ resp.more = SnapshotJSON(FullCatalog)
  /\ Len(calls) = 4

\* C7: when a cursor's iteration stops early on an error (rows.Next returns
\* false with rows.Err() set), the request ends with an error, never with a
\* success holding the rows read so far.
C7_NoSilentTruncation ==
  (phase = "done" /\ "rows.Err" \in ignored) => IsFailure

\* C8: a success result is returned only when its payload was serialized
\* without error.
C8_MarshalFailureIsError ==
  (phase = "done" /\ IsSuccess) => ("json.Marshal" \notin ignored /\ resp.text # NoBytes)

\* C9: every row of a returned ResultSet has one entry per declared column,
\* and the value the database returned at each column position can be read
\* from the row.
C9_OneEntryPerColumn ==
  (phase = "done" /\ req.tool = "postgres_query" /\ IsSuccess /\ resp.text.j = "object") =>
    LET cols == resp.text.members.columns.items
        rows == resp.text.members.rows.items
    IN  /\ cols = [c \in 1..Len(db.query.columns) |-> JText(db.query.columns[c])]
        /\ \A i \in 1..Len(rows) :
             /\ Cardinality(DOMAIN rows[i].members) = Len(cols)
             /\ \A c \in 1..Len(cols) :
                  rows[i].members[cols[c].v].v = Cell(db.query.kinds[c], i, c).v

\* C10: describe_table sends the table name as the one bound parameter of the
\* fixed columns query; for a table the public schema does not have it returns
\* a success whose payload is the empty array, and for an existing table one
\* {column, type} pair per column in ordinal order.
C10_DescribeTable ==
  (phase = "done" /\ req.tool = "describe_table" /\ req.arg.present
     /\ db.faults[1] = NoFault) =>
    /\ calls = <<ColumnsCall(req.arg.val)>>
    /\ IsSuccess
    /\ resp.text = PairsJSON(ColumnsRows(db.catalog, req.arg.val))

\* C11: every row cursor opened while handling a request is closed before the
\* handler returns, on every exit path: when a request is done, as many
\* cursors were closed as were opened.
C11_CursorsReleased ==
  phase = "done" => opened = closed

====
